---- MODULE Spec2Model ----
(***************************************************************************)
(* Wurstliga: the data pipeline of src/app.py.                             *)
(*                                                                         *)
(* load_data reads and validates the CSV file (behind a 300 s cache),      *)
(* main() derives the standings table, the rank time series and the        *)
(* per-round detail table from the validated rows on every script run.     *)
(*                                                                         *)
(* pandas semantics modelled here are those of pandas 1.x/2.x, which the   *)
(* application was written against: Series.astype(str) turns a missing     *)
(* value into the string "nan"; sort_values on several keys is a stable    *)
(* lexicographic sort that puts missing values last whatever the           *)
(* direction; groupby sorts its keys; sum skips missing values.            *)
(***************************************************************************)
EXTENDS Integers, Sequences, FiniteSets, TLC

VARIABLES
    csv,        \* the data file: [exists, header, rows]
    fileVer,    \* how many times the file has been rewritten (history)
    now,        \* the clock, in seconds
    cache,      \* st.cache_data entry of load_data: [valid, t, value, srcVer]
    session,    \* st.session_state: initial_random_players and the widgets
    df_results, \* main(): the frame load_data returned to the last run
    view,       \* what the last run of main() rendered
    lastLoad    \* history of the last two load_data calls

vars == <<csv, fileVer, now, cache, session, df_results, view, lastLoad>>

---------------------------------------------------------------------------
(* Configuration, src/app.py lines 9-15 and 18.                            *)

ALL_EXPECTED_COLUMNS ==
    <<"Spieltag", "Rank_Pos", "Name", "Spieltagspunkte_P", "Tabellenpunkte",
      "TV", "NULL", "STS">>

REQUIRED_COLUMNS == <<"Spieltag", "Name", "Tabellenpunkte", "TV", "NULL", "STS">>

OPTIONAL_COLUMNS == <<"Rank_Pos", "Spieltagspunkte_P">>

MAX_PLAYERS_DEFAULT_CHART == 5

CACHE_TTL == 300

---------------------------------------------------------------------------
(* Generic helpers on sequences.                                           *)

Range(s) == {s[i] : i \in DOMAIN s}

Contains(s, x) == \E i \in DOMAIN s : s[i] = x

RECURSIVE SumSeq(_)
SumSeq(s) == IF s = <<>> THEN 0 ELSE Head(s) + SumSeq(Tail(s))

\* All sequences over S of length at most n.
RECURSIVE SeqsUpTo(_, _)
SeqsUpTo(S, n) ==
    IF n = 0 THEN {<<>>}
    ELSE LET shorter == SeqsUpTo(S, n - 1)
         IN  shorter \cup {Append(s, x) : s \in {t \in shorter : Len(t) = n - 1}, x \in S}

---------------------------------------------------------------------------
(* Cells.  A numeric cell of the file is an integer literal, a non-integer *)
(* number (v + 1/2), text that is no number, or empty.  A Name cell is a   *)
(* string, the empty string standing for an empty cell.                    *)

IntCell(n)  == [k |-> "int",  v |-> n]
FracCell(n) == [k |-> "frac", v |-> n]
TextCell    == [k |-> "text", v |-> 0]
NA          == [k |-> "na",   v |-> 0]

isnull(c) == c.k = "na"

\* The order Python gives the participant names used here (code points:
\* upper case before lower case).
NameOrder == <<"A", "B", "C", "nan">>

NameIndex(n) == CHOOSE i \in DOMAIN NameOrder : NameOrder[i] = n

---------------------------------------------------------------------------
(* load_data, src/app.py lines 18-78.                                      *)

NUMERIC_COLUMNS ==
    <<"Spieltag", "Rank_Pos", "Spieltagspunkte_P", "Tabellenpunkte", "TV", "NULL", "STS">>

\* pd.DataFrame(columns=ALL_EXPECTED_COLUMNS)
empty_df == [columns |-> ALL_EXPECTED_COLUMNS, rows |-> <<>>]

\* pd.DataFrame()
no_df == [columns |-> <<>>, rows |-> <<>>]

df_empty(df) == df.columns = <<>> \/ df.rows = <<>>

\* pd.read_csv: the header's columns, each row restricted to them.
read_csv(file) ==
    [columns |-> file.header,
     rows    |-> [i \in DOMAIN file.rows |->
                    [c \in Range(file.header) |-> file.rows[i][c]]]]

\* Faulty variant: every expected column is demanded, the optional ones too.
missing_cols_all(df) ==
    SelectSeq(ALL_EXPECTED_COLUMNS, LAMBDA c : ~Contains(df.columns, c))

\* Line 36.
missing_cols(df) == SelectSeq(REQUIRED_COLUMNS, LAMBDA c : ~Contains(df.columns, c))

\* Faulty variant: every absent column is filled with 0.
fill_zero(col) == IntCell(0)

\* Line 43.
fill_val(col) == IF col \in {"TV", "NULL", "STS"} THEN IntCell(0) ELSE NA

\* Lines 41-45: df[col] = fill_val appends the column.
RECURSIVE backfill_from(_, _)
backfill_from(df, i) ==
    IF i > Len(ALL_EXPECTED_COLUMNS) THEN df
    ELSE LET col == ALL_EXPECTED_COLUMNS[i]
         IN  IF Contains(df.columns, col) THEN backfill_from(df, i + 1)
             ELSE backfill_from(
                    [columns |-> Append(df.columns, col),
                     rows    |-> [r \in DOMAIN df.rows |->
                                    (col :> fill_val(col)) @@ df.rows[r]]],
                    i + 1)

backfill(df) == backfill_from(df, 1)

\* pd.to_numeric(..., errors='coerce'): text becomes missing.
to_numeric(c) == IF c.k = "text" THEN NA ELSE c

\* Series.astype(str): a missing value becomes the string "nan".
astype_str(name) == IF name = "" THEN "nan" ELSE name

\* Lines 47-54.
coerce_row(row) ==
    [c \in DOMAIN row |->
        IF c = "Name" THEN astype_str(row[c])
        ELSE IF Contains(NUMERIC_COLUMNS, c) THEN to_numeric(row[c])
        ELSE row[c]]

\* Line 56.
essential_cols == <<"Spieltag", "Name", "Tabellenpunkte", "TV", "NULL", "STS">>

\* Whether dropna(subset=essential_cols) keeps the row.  The Name column
\* holds strings by now, and a string is never missing.
notna_essential(row) ==
    \A i \in DOMAIN essential_cols :
        essential_cols[i] = "Name" \/ ~isnull(row[essential_cols[i]])

\* Line 58.
dropna(rows) == SelectSeq(rows, notna_essential)

\* astype('Int64') raises for a number that is no integer.
astype_Int64_raises(rows) ==
    \E i \in DOMAIN rows :
        rows[i]["Rank_Pos"].k = "frac" \/ rows[i]["Spieltagspunkte_P"].k = "frac"

\* astype(int): truncation (the cells here are not negative).
astype_int(c) == c.v

\* Lines 65-71.
cast_row(row) ==
    [c \in DOMAIN row |->
        IF c \in {"Spieltag", "Tabellenpunkte", "TV", "NULL", "STS"}
        THEN astype_int(row[c])
        ELSE row[c]]

\* Line 74: df[ALL_EXPECTED_COLUMNS].
select_expected(df) ==
    [columns |-> ALL_EXPECTED_COLUMNS,
     rows    |-> [r \in DOMAIN df.rows |->
                    [c \in Range(ALL_EXPECTED_COLUMNS) |-> df.rows[r][c]]]]

ErrNotFound       == [level |-> "error", what |-> "not_found", cols |-> <<>>]
ErrMissing(cols)  == [level |-> "error", what |-> "missing_columns", cols |-> cols]
ErrUnexpected     == [level |-> "error", what |-> "unexpected", cols |-> <<>>]

\* The function body: the frame returned and the st.error elements emitted.
load_data(file) ==
    IF ~file.exists THEN [df |-> empty_df, msgs |-> <<ErrNotFound>>]
    ELSE IF file.header = <<>> /\ file.rows = <<>>          \* getsize == 0
    THEN [df |-> empty_df, msgs |-> <<>>]
    ELSE LET df == read_csv(file) IN
    IF df_empty(df) THEN [df |-> empty_df, msgs |-> <<>>]
    ELSE IF missing_cols(df) # <<>>
    THEN [df |-> empty_df, msgs |-> <<ErrMissing(missing_cols(df))>>]
    ELSE LET filled == backfill(df)
             coerced == [r \in DOMAIN filled.rows |-> coerce_row(filled.rows[r])]
             kept == dropna(coerced)
         IN  IF kept = <<>> THEN [df |-> empty_df, msgs |-> <<>>]
             ELSE IF astype_Int64_raises(kept)
             THEN [df |-> empty_df, msgs |-> <<ErrUnexpected>>]
             ELSE [df |-> select_expected(
                            [columns |-> filled.columns,
                             rows |-> [r \in DOMAIN kept |-> cast_row(kept[r])]]),
                   msgs |-> <<>>]

---------------------------------------------------------------------------
(* Column helpers on a loaded frame.                                       *)

Column(rows, c) == [i \in DOMAIN rows |-> rows[i][c]]

\* Series.unique() as a set; Series.nunique() is its size.
unique(rows, c) == {rows[i][c] : i \in DOMAIN rows}

nunique(rows, c) == Cardinality(unique(rows, c))

\* sorted(set of names): ascending by code point.
sorted_names(S) ==
    SelectSeq(NameOrder, LAMBDA n : n \in S)

\* sorted(set of integers, reverse=True)
RECURSIVE sorted_desc(_)
sorted_desc(S) ==
    IF S = {} THEN <<>>
    ELSE LET m == CHOOSE x \in S : \A y \in S : y <= x
         IN  <<m>> \o sorted_desc(S \ {m})

\* Sum of a nullable integer column: missing values are skipped.
nullable_val(c) == IF isnull(c) THEN 0 ELSE c.v

---------------------------------------------------------------------------
(* The sort orders of the three tables, and sort_values.                   *)

\* Faulty variant: the rows are ordered by Name alone.
by_name_only(a, b) == NameIndex(a["Name"]) < NameIndex(b["Name"])

\* Line 83: sort_values(by=['Spieltag', 'Name']).
by_spieltag_name(a, b) ==
    \/ a["Spieltag"] < b["Spieltag"]
    \/ /\ a["Spieltag"] = b["Spieltag"]
       /\ NameIndex(a["Name"]) < NameIndex(b["Name"])

\* Faulty variant: no tie-break by the external points.
by_points_only(a, b) == a.Total_Tabellenpunkte > b.Total_Tabellenpunkte

\* Lines 129-132: sort_values(by=[Total_Tabellenpunkte,
\* Total_Spieltagspunkte_P], ascending=[False, False]).
by_totals_desc(a, b) ==
    \/ a.Total_Tabellenpunkte > b.Total_Tabellenpunkte
    \/ /\ a.Total_Tabellenpunkte = b.Total_Tabellenpunkte
       /\ a.Total_Spieltagspunkte_P > b.Total_Spieltagspunkte_P

\* Where a nullable key puts a before b in a descending (resp. ascending)
\* sort: missing values last in both.
nullable_before_desc(a, b) ==
    \/ ~isnull(a) /\ isnull(b)
    \/ ~isnull(a) /\ ~isnull(b) /\ a.v > b.v

nullable_before_asc(a, b) ==
    \/ ~isnull(a) /\ isnull(b)
    \/ ~isnull(a) /\ ~isnull(b) /\ a.v < b.v

nullable_eq(a, b) ==
    \/ isnull(a) /\ isnull(b)
    \/ ~isnull(a) /\ ~isnull(b) /\ a.v = b.v

\* Lines 208-209 and 213-214 with line 218.
detail_before(a, b, rank) ==
    \/ a["Tabellenpunkte"] > b["Tabellenpunkte"]
    \/ /\ a["Tabellenpunkte"] = b["Tabellenpunkte"]
       /\ \/ nullable_before_desc(a["Spieltagspunkte_P"], b["Spieltagspunkte_P"])
          \/ /\ rank
             /\ nullable_eq(a["Spieltagspunkte_P"], b["Spieltagspunkte_P"])
             /\ nullable_before_asc(a["Rank_Pos"], b["Rank_Pos"])

\* Whether a comes strictly before b in the named order.
before(order, a, b) ==
    CASE order = "spieltag_name" -> by_spieltag_name(a, b)
      [] order = "totals"        -> by_totals_desc(a, b)
      [] order = "detail_rank"   -> detail_before(a, b, TRUE)
      [] order = "detail"        -> detail_before(a, b, FALSE)
      [] order = "descending"    -> a > b

\* One element put into a sorted sequence, behind every element that does
\* not come after it.
RECURSIVE insert_sorted(_, _, _)
insert_sorted(sorted, x, order) ==
    IF sorted = <<>> THEN <<x>>
    ELSE IF before(order, x, Head(sorted)) THEN <<x>> \o sorted
    ELSE <<Head(sorted)>> \o insert_sorted(Tail(sorted), x, order)

\* DataFrame.sort_values on several keys: a stable sort.
RECURSIVE sort_values(_, _)
sort_values(rows, order) ==
    IF rows = <<>> THEN <<>>
    ELSE insert_sorted(sort_values(SubSeq(rows, 1, Len(rows) - 1), order),
                       rows[Len(rows)], order)

---------------------------------------------------------------------------
(* prepare_rank_chart_data, src/app.py lines 81-90.                        *)

\* Line 85: groupby('Name')['Tabellenpunkte'].cumsum() at position i: the
\* running total over the rows of the same Name up to and including i.
group_cumsum(rows, i) ==
    SumSeq(Column(SelectSeq(SubSeq(rows, 1, i),
                            LAMBDA r : r["Name"] = rows[i]["Name"]),
                  "Tabellenpunkte"))

\* Faulty variant: rank(method='dense'), one more than the number of
\* distinct greater values.
rank_dense_desc(vals, x) == 1 + Cardinality({v \in Range(vals) : v > x})

\* rank(method='min', ascending=False) of value x among the values vals:
\* the first position of x in the values sorted descending.
rank_min_desc(vals, x) ==
    LET sorted == sort_values(vals, "descending")
    IN  CHOOSE p \in DOMAIN sorted :
            /\ sorted[p] = x
            /\ \A q \in 1..(p - 1) : sorted[q] # x

\* Lines 87-88: groupby('Spieltag')[...].rank(method='min', ascending=False).
group_rank(rows, cum, i) ==
    LET idx == SelectSeq([j \in DOMAIN rows |-> j],
                         LAMBDA j : rows[j]["Spieltag"] = rows[i]["Spieltag"])
    IN  rank_min_desc([k \in DOMAIN idx |-> cum[idx[k]]], cum[i])

\* Faulty variant: one round is taken to be enough.
too_few_rounds_one(df) == df_empty(df) \/ nunique(df.rows, "Spieltag") < 1

\* Line 82.
too_few_rounds(df) == df_empty(df) \/ nunique(df.rows, "Spieltag") < 2

prepare_rank_chart_data(df) ==
    IF too_few_rounds(df) THEN no_df
    ELSE LET df_chart == sort_values(df.rows, "spieltag_name")
             cum == [i \in DOMAIN df_chart |-> group_cumsum(df_chart, i)]
         IN  [columns |-> <<"Spieltag", "Name", "Rank_At_Spieltag",
                            "Cumulative_Tabellenpunkte">>,
              rows |-> [i \in DOMAIN df_chart |->
                  [Spieltag |-> df_chart[i]["Spieltag"],
                   Name |-> df_chart[i]["Name"],
                   Rank_At_Spieltag |-> group_rank(df_chart, cum, i),
                   Cumulative_Tabellenpunkte |-> cum[i]]]]

---------------------------------------------------------------------------
(* display_overall_standings, src/app.py lines 116-155.                    *)

\* Faulty variant: 'first' in place of 'sum'.
agg_first(rows, c) == rows[1][c]

\* The aggregation 'sum' of an integer column over the rows of a group.
agg_sum(rows, c) == SumSeq(Column(rows, c))

\* Lines 122-128: groupby('Name', as_index=False).agg(... 'sum'), one row
\* per name, the names in sorted order.
group_sums(df) ==
    LET names == sorted_names(unique(df.rows, "Name"))
        of(n) == SelectSeq(df.rows, LAMBDA r : r["Name"] = n)
    IN  [g \in DOMAIN names |->
            [Name |-> names[g],
             Total_Spieltagspunkte_P |->
                SumSeq([i \in DOMAIN of(names[g]) |->
                          nullable_val(of(names[g])[i]["Spieltagspunkte_P"])]),
             Total_Tabellenpunkte |-> agg_sum(of(names[g]), "Tabellenpunkte"),
             Total_TV   |-> agg_sum(of(names[g]), "TV"),
             Total_NULL |-> agg_sum(of(names[g]), "NULL"),
             Total_STS  |-> agg_sum(of(names[g]), "STS")]]

\* Lines 133-134: the index + 1 becomes the column Rang.
with_rang(rows) ==
    [i \in DOMAIN rows |-> [Rang |-> i] @@ rows[i]]

display_overall_standings(df) ==
    with_rang(sort_values(group_sums(df), "totals"))

---------------------------------------------------------------------------
(* display_individual_spieltag, src/app.py lines 195-235.                  *)

\* Line 204.
use_rank_pos(rows) == \E i \in DOMAIN rows : ~isnull(rows[i]["Rank_Pos"])

\* Lines 206 and 211.
cols_to_display(rank) ==
    IF rank
    THEN <<"Rank_Pos", "Name", "Spieltagspunkte_P", "Tabellenpunkte", "TV", "NULL", "STS">>
    ELSE <<"Name", "Spieltagspunkte_P", "Tabellenpunkte", "TV", "NULL", "STS">>

\* Line 198.
available_spieltage(df) == sorted_desc(unique(df.rows, "Spieltag"))

\* Line 201: "if selected_spieltag:" is the truth value of the number.
truthy(n) == n # 0

no_detail == [shown |-> FALSE, spieltag |-> 0, columns |-> <<>>, rows |-> <<>>]

display_individual_spieltag(df, selected_spieltag) ==
    IF ~truthy(selected_spieltag) THEN no_detail
    ELSE LET df_selected == SelectSeq(df.rows,
                                LAMBDA r : r["Spieltag"] = selected_spieltag)
             rank == use_rank_pos(df_selected)
             sorted == sort_values(df_selected, IF rank THEN "detail_rank" ELSE "detail")
             cols == cols_to_display(rank)
         IN  [shown |-> TRUE,
              spieltag |-> selected_spieltag,
              columns |-> cols,
              rows |-> [i \in DOMAIN sorted |->
                          [c \in Range(cols) |-> sorted[i][c]]]]

---------------------------------------------------------------------------
(* The st.cache_data wrapper of load_data, src/app.py line 18.             *)

no_value == [df |-> empty_df, msgs |-> <<>>]

\* Faulty variant: a hit serves the placeholder the entry was created with.
cached_placeholder(c, t, file, ver) ==
    IF c.valid /\ t < c.t + CACHE_TTL
    THEN [hit |-> TRUE,  value |-> [df |-> empty_df, msgs |-> <<>>], srcVer |-> c.srcVer]
    ELSE [hit |-> FALSE, value |-> load_data(file), srcVer |-> ver]

\* A call at time t with the file in version ver: the entry is served while
\* it is younger than the TTL (its st.error elements are replayed), else the
\* function body runs.
cached_load_data(c, t, file, ver) ==
    IF c.valid /\ t < c.t + CACHE_TTL
    THEN [hit |-> TRUE,  value |-> c.value,         srcVer |-> c.srcVer]
    ELSE [hit |-> FALSE, value |-> load_data(file), srcVer |-> ver]

---------------------------------------------------------------------------
(* main, src/app.py lines 93-113, with the sections it calls.              *)

WarnNoData     == [level |-> "warning", what |-> "no_data", cols |-> <<>>]
InfoTwoRounds  == [level |-> "info", what |-> "needs_two_rounds", cols |-> <<>>]
InfoNoPlayers  == [level |-> "info", what |-> "no_players_selected", cols |-> <<>>]
WarnNoChart    == [level |-> "warning", what |-> "no_chart_data", cols |-> <<>>]

unset == [set |-> FALSE, val |-> {}]
unset_spieltag == [set |-> FALSE, val |-> 0]

\* Line 105.
all_players(df) == unique(df.rows, "Name")

\* Lines 107-108 and 165-166: random.sample(all_players, k=num_to_select),
\* every sample of that size.
samples(players) ==
    LET num_to_select ==
            IF Cardinality(players) < MAX_PLAYERS_DEFAULT_CHART
            THEN Cardinality(players) ELSE MAX_PLAYERS_DEFAULT_CHART
    IN  {S \in SUBSET players : Cardinality(S) = num_to_select}

\* Nothing but messages rendered: line 101-103.
blank_view(msgs) ==
    [msgs |-> msgs, standings |-> <<>>, rank_all |-> no_df, chart |-> <<>>,
     detail |-> no_detail]

\* display_rank_evolution_chart, lines 174-193, for the selected players.
display_rank_evolution_chart(df, selected_players) ==
    LET df_rank_chart_all == prepare_rank_chart_data(df)
        df_filtered_chart == SelectSeq(df_rank_chart_all.rows,
                                LAMBDA r : r.Name \in selected_players)
    IN  [rank_all |-> df_rank_chart_all,
         chart |-> df_filtered_chart,
         msgs |-> IF ~df_empty(df_rank_chart_all) /\ df_filtered_chart = <<>>
                  THEN <<WarnNoChart>> ELSE <<>>]

\* One run of the script with the session state sess (the widget values the
\* user has set included).
RunMain(sess) ==
    LET call == cached_load_data(cache, now, csv, fileVer)
        df == call.value.df
    IN  /\ cache' = IF call.hit THEN cache
                    ELSE [valid |-> TRUE, t |-> now, value |-> call.value,
                          srcVer |-> fileVer]
        /\ lastLoad' = [calls |-> IF lastLoad.calls = 0 THEN 1 ELSE 2,
                        t |-> now, hit |-> call.hit, srcVer |-> call.srcVer,
                        prevT |-> lastLoad.t, prevSrcVer |-> lastLoad.srcVer]
        /\ df_results' = df
        /\ IF df_empty(df)
           THEN /\ session' = sess
                /\ view' = blank_view(call.value.msgs \o <<WarnNoData>>)
           ELSE \E sample \in samples(all_players(df)),
                   resample \in samples(all_players(df)) :
                LET initial == IF sess.initial_random_players.set
                               THEN sess.initial_random_players.val ELSE sample
                    \* display_rank_evolution_chart_section, lines 157-172
                    two_rounds == nunique(df.rows, "Spieltag") >= 2
                    valid_default == initial \cap all_players(df)
                    default == IF valid_default = {} THEN resample ELSE valid_default
                    selected_players ==
                        IF sess.player_rank_selector.set
                        THEN sess.player_rank_selector.val \cap all_players(df)
                        ELSE default
                    chart == IF two_rounds /\ selected_players # {}
                             THEN display_rank_evolution_chart(df, selected_players)
                             ELSE [rank_all |-> no_df, chart |-> <<>>,
                                   msgs |-> IF two_rounds THEN <<InfoNoPlayers>>
                                            ELSE <<InfoTwoRounds>>]
                    \* display_individual_spieltag, lines 198-200
                    options == available_spieltage(df)
                    selected_spieltag ==
                        IF sess.spieltag_selector.set
                           /\ Contains(options, sess.spieltag_selector.val)
                        THEN sess.spieltag_selector.val ELSE options[1]
                IN  /\ session' =
                          [initial_random_players |-> [set |-> TRUE, val |-> initial],
                           player_rank_selector |->
                               IF two_rounds
                               THEN [set |-> TRUE, val |-> selected_players]
                               ELSE sess.player_rank_selector,
                           spieltag_selector |-> [set |-> TRUE, val |-> selected_spieltag]]
                    /\ view' =
                          [msgs |-> call.value.msgs \o chart.msgs,
                           standings |-> display_overall_standings(df),
                           rank_all |-> chart.rank_all,
                           chart |-> chart.chart,
                           detail |-> display_individual_spieltag(df, selected_spieltag)]
        /\ UNCHANGED <<csv, fileVer, now>>

\* The page is loaded or refreshed.
Rerun == RunMain(session)

\* The user picks another round in the selectbox of the last run.
SelectSpieltag ==
    /\ ~df_empty(df_results)
    /\ \E s \in unique(df_results.rows, "Spieltag") \ {session.spieltag_selector.val} :
          RunMain([session EXCEPT !.spieltag_selector = [set |-> TRUE, val |-> s]])

\* The user changes the multiselect of the last run.
SelectPlayers ==
    /\ ~df_empty(df_results)
    /\ nunique(df_results.rows, "Spieltag") >= 2
    /\ \E S \in SUBSET all_players(df_results) \ {session.player_rank_selector.val} :
          RunMain([session EXCEPT !.player_rank_selector = [set |-> TRUE, val |-> S]])

---------------------------------------------------------------------------
(* The environment: time passes, and the file is rewritten by whoever      *)
(* maintains it.                                                           *)

TickStep == 150
MaxTime == 450
MaxEdits == 1

Tick ==
    /\ now + TickStep <= MaxTime
    /\ now' = now + TickStep
    /\ UNCHANGED <<csv, fileVer, cache, session, df_results, view, lastLoad>>

WriteFile(files) ==
    /\ fileVer < MaxEdits
    /\ \E f \in files : f # csv /\ csv' = f
    /\ fileVer' = fileVer + 1
    /\ UNCHANGED <<now, cache, session, df_results, view, lastLoad>>

---------------------------------------------------------------------------
(* Input files.                                                            *)

MaxRowsRank == 4
MaxRowsTable == 3
MaxRowsDetail == 2
MaxRowsLoad == 2
MaxRowsHeader == 2
MaxRowsCache == 2

Row(sp, rk, nm, pk, tp, tv, nu, st) ==
    [Spieltag |-> sp, Rank_Pos |-> rk, Name |-> nm, Spieltagspunkte_P |-> pk,
     Tabellenpunkte |-> tp, TV |-> tv, NULL |-> nu, STS |-> st]

File(header, rows) == [exists |-> TRUE, header |-> header, rows |-> rows]

NoFile == [exists |-> FALSE, header |-> <<>>, rows |-> <<>>]

ZeroLength == File(<<>>, <<>>)

FilesOf(header, rowset, n) == {File(header, rows) : rows \in SeqsUpTo(rowset, n)}

\* Two participants over two rounds: 0 or 1 league points in round 1, 1 in
\* round 2.
RowsRank ==
    {Row(IntCell(st[1]), NA, n, NA, IntCell(st[2]), IntCell(0), IntCell(0), IntCell(0)) :
        st \in {<<1, 0>>, <<1, 1>>, <<2, 1>>}, n \in {"A", "B"}}

\* Three participants in one round, with and without external points, and
\* rows whose league points are no number.
RowsTable ==
    {Row(IntCell(1), NA, n, pt[1], pt[2], IntCell(1), IntCell(0), IntCell(1)) :
        n \in {"A", "B", "C"},
        pt \in {<<NA, IntCell(1)>>, <<IntCell(1), IntCell(1)>>, <<NA, TextCell>>}}

\* Rounds 0 and 1, external points and external rank present or not.
RowsDetail ==
    {Row(IntCell(s), rk, "A", p, IntCell(1), IntCell(0), IntCell(1), IntCell(0)) :
        s \in {0, 1}, rk \in {NA, IntCell(1), IntCell(2)}, p \in {NA, IntCell(1)}}

FilesAgg ==
    FilesOf(ALL_EXPECTED_COLUMNS, RowsRank, MaxRowsRank)
    \cup FilesOf(ALL_EXPECTED_COLUMNS, RowsTable, MaxRowsTable)
    \cup FilesOf(ALL_EXPECTED_COLUMNS, RowsDetail, MaxRowsDetail)

\* Rows with invalid cells: league points, external points and the flags.
CellsLoad ==
    {<<IntCell(1), NA, IntCell(0), IntCell(0), IntCell(0)>>,
     <<NA, NA, IntCell(0), IntCell(0), IntCell(0)>>,
     <<FracCell(2), IntCell(3), IntCell(0), IntCell(0), IntCell(1)>>,
     <<IntCell(1), FracCell(1), IntCell(0), IntCell(0), IntCell(0)>>,
     <<IntCell(1), NA, TextCell, IntCell(1), IntCell(0)>>,
     <<IntCell(2), IntCell(3), IntCell(0), NA, IntCell(1)>>,
     <<IntCell(1), NA, IntCell(1), IntCell(0), TextCell>>}

RowsLoad ==
    {Row(s, IntCell(1), n, c[2], c[1], c[3], c[4], c[5]) :
        s \in {IntCell(1), TextCell}, n \in {"A", ""}, c \in CellsLoad}

\* Every choice of columns, in two orders.
Subheaders(h) ==
    {SelectSeq(h, LAMBDA c : c \in S) : S \in SUBSET Range(h)}

Reversed(h) == [i \in DOMAIN h |-> h[Len(h) + 1 - i]]

Headers ==
    (Subheaders(ALL_EXPECTED_COLUMNS) \cup Subheaders(Reversed(ALL_EXPECTED_COLUMNS)))
    \ {<<>>}

RowsHeader ==
    {Row(IntCell(1), IntCell(1), "A", IntCell(3), IntCell(2), IntCell(0), IntCell(0), IntCell(1)),
     Row(IntCell(2), NA, "B", TextCell, IntCell(1), IntCell(1), IntCell(0), IntCell(0))}

FilesLoad ==
    FilesOf(ALL_EXPECTED_COLUMNS, RowsLoad, MaxRowsLoad)
    \cup UNION {FilesOf(h, RowsHeader, MaxRowsHeader) : h \in Headers}
    \cup {NoFile, ZeroLength}

\* The files of the cache scenarios: up to two rounds, a file that lacks
\* required columns, and no file.
RowsCache ==
    {Row(IntCell(1), NA, "A", NA, IntCell(1), IntCell(0), IntCell(0), IntCell(0)),
     Row(IntCell(2), NA, "B", NA, IntCell(2), IntCell(0), IntCell(0), IntCell(0))}

FilesCache ==
    FilesOf(ALL_EXPECTED_COLUMNS, RowsCache, MaxRowsCache)
    \cup FilesOf(<<"Spieltag", "Name">>, RowsCache, 1)
    \cup {NoFile}

---------------------------------------------------------------------------
(* Specifications.                                                         *)

InitWith(files) ==
    /\ csv \in files
    /\ fileVer = 0
    /\ now = 0
    /\ cache = [valid |-> FALSE, t |-> 0, value |-> no_value, srcVer |-> 0]
    /\ session = [initial_random_players |-> unset,
                  player_rank_selector |-> unset,
                  spieltag_selector |-> unset_spieltag]
    /\ df_results = empty_df
    /\ view = blank_view(<<>>)
    /\ lastLoad = [calls |-> 0, t |-> 0, hit |-> FALSE, srcVer |-> 0,
                   prevT |-> 0, prevSrcVer |-> 0]

\* One session on a fixed file within one freshness window.
Init == InitWith(FilesAgg)

Next == Rerun \/ SelectSpieltag \/ SelectPlayers

Spec == Init /\ [][Next]_vars

\* The same on files with invalid cells, missing columns, or no file.
InitLoad == InitWith(FilesLoad)

SpecLoad == InitLoad /\ [][Next]_vars

\* Time passes and the file is rewritten.
InitCache == InitWith(FilesCache)

NextCache == Rerun \/ SelectSpieltag \/ SelectPlayers \/ Tick \/ WriteFile(FilesCache)

SpecCache == InitCache /\ [][NextCache]_vars

---------------------------------------------------------------------------
(* Properties.  The sums and orders below are stated on the validated row  *)
(* set df_results and on the file, independently of the operators above.   *)

Loaded == lastLoad.calls > 0

\* Sum of Tabellenpunkte over the rows with index in I.
RECURSIVE SumPoints(_, _)
SumPoints(rows, I) ==
    IF I = {} THEN 0
    ELSE LET i == CHOOSE j \in I : TRUE
         IN  rows[i]["Tabellenpunkte"] + SumPoints(rows, I \ {i})

RowsOf(rows, name) == {j \in DOMAIN rows : rows[j]["Name"] = name}

EntriesOf(tab, name) == {i \in DOMAIN tab : tab[i].Name = name}

\* C1: the standings table holds exactly one entry per participant of the
\* validated row set, its Total_Tabellenpunkte is the sum of Tabellenpunkte
\* over exactly that participant's surviving rows, and nobody without a
\* surviving row has an entry.
C1_StandingsSums ==
    ~df_empty(df_results) =>
        /\ \A n \in unique(df_results.rows, "Name") :
              Cardinality(EntriesOf(view.standings, n)) = 1
        /\ \A i \in DOMAIN view.standings :
              /\ view.standings[i].Name \in unique(df_results.rows, "Name")
              /\ view.standings[i].Total_Tabellenpunkte =
                     SumPoints(df_results.rows,
                               RowsOf(df_results.rows, view.standings[i].Name))

\* A participant whose entry sums two surviving rows, a row of the file that
\* did not survive loading, and a name of the file with no surviving row.
C1_Witness ==
    /\ Loaded
    /\ Len(df_results.rows) < Len(csv.rows)
    /\ \E i \in DOMAIN view.standings :
          /\ Cardinality(RowsOf(df_results.rows, view.standings[i].Name)) = 2
          /\ view.standings[i].Total_Tabellenpunkte = 2
    /\ \E r \in DOMAIN csv.rows :
          csv.rows[r]["Name"] \notin unique(df_results.rows, "Name")

\* The sum of a participant's Tabellenpunkte over the rounds up to round n.
PointsUpTo(rows, name, n) ==
    SumPoints(rows, {j \in RowsOf(rows, name) : rows[j]["Spieltag"] <= n})

\* C2 as stated: every entry of the rank time series for participant P at
\* round N carries the sum of P's Tabellenpunkte over all of P's rows with
\* round <= N, also when P has several rows in the same round.
C2_EveryEntryFullSum ==
    \A i \in DOMAIN view.rank_all.rows :
        LET e == view.rank_all.rows[i]
        IN  e.Cumulative_Tabellenpunkte = PointsUpTo(df_results.rows, e.Name, e.Spieltag)

\* C2 amended: the last of P's entries for round N (P's only entry when P
\* has one row in that round) carries the sum of P's Tabellenpunkte over all
\* of P's rows with round <= N, whatever the order of the input rows and
\* whether or not P has a row in every earlier round; and the series holds
\* one entry per row.
C2_LastEntryFullSum ==
    LET out == view.rank_all.rows
    IN  /\ out # <<>> => Len(out) = Len(df_results.rows)
        /\ \A i \in DOMAIN out :
              (\A j \in DOMAIN out :
                  (j > i => ~(out[j].Name = out[i].Name /\ out[j].Spieltag = out[i].Spieltag)))
              => out[i].Cumulative_Tabellenpunkte =
                     PointsUpTo(df_results.rows, out[i].Name, out[i].Spieltag)

\* The series was computed from a file whose rows are not in round order, in
\* which one participant has two rows in a round and another has no row in
\* round 1 but points in round 2.
C2_Witness ==
    /\ view.rank_all.rows # <<>>
    /\ \E i, j \in DOMAIN csv.rows :
          i < j /\ csv.rows[i]["Spieltag"].v > csv.rows[j]["Spieltag"].v
    /\ \E i, j \in DOMAIN view.rank_all.rows :
          /\ i # j
          /\ view.rank_all.rows[i].Name = view.rank_all.rows[j].Name
          /\ view.rank_all.rows[i].Spieltag = view.rank_all.rows[j].Spieltag
          /\ view.rank_all.rows[i].Cumulative_Tabellenpunkte
                 # view.rank_all.rows[j].Cumulative_Tabellenpunkte
    /\ \E i \in DOMAIN view.rank_all.rows :
          /\ view.rank_all.rows[i].Spieltag = 2
          /\ view.rank_all.rows[i].Cumulative_Tabellenpunkte > 0
          /\ \A j \in DOMAIN view.rank_all.rows :
                view.rank_all.rows[j].Name = view.rank_all.rows[i].Name
                => view.rank_all.rows[j].Spieltag = 2

\* C3: within a round of the rank time series equal cumulative scores have
\* equal ranks, a strictly higher score has a strictly lower rank number,
\* and every rank is one more than the number of entries of the round with a
\* strictly greater score, so that the best entry of every round has rank 1.
C3_CompetitionRank ==
    LET out == view.rank_all.rows
        same(i, j) == out[i].Spieltag = out[j].Spieltag
    IN  /\ \A i, j \in DOMAIN out :
              same(i, j) =>
                /\ out[i].Cumulative_Tabellenpunkte = out[j].Cumulative_Tabellenpunkte
                      => out[i].Rank_At_Spieltag = out[j].Rank_At_Spieltag
                /\ out[i].Cumulative_Tabellenpunkte > out[j].Cumulative_Tabellenpunkte
                      => out[i].Rank_At_Spieltag < out[j].Rank_At_Spieltag
        /\ \A i \in DOMAIN out :
              out[i].Rank_At_Spieltag =
                  1 + Cardinality({j \in DOMAIN out :
                        same(i, j) /\ out[j].Cumulative_Tabellenpunkte
                                          > out[i].Cumulative_Tabellenpunkte})
        /\ \A i \in DOMAIN out :
              \E j \in DOMAIN out : same(i, j) /\ out[j].Rank_At_Spieltag = 1

\* A round in which two entries share rank 1 and a third has rank 3.
C3_Witness ==
    \E i, j, k \in DOMAIN view.rank_all.rows :
        LET out == view.rank_all.rows
        IN  /\ i # j
            /\ out[i].Spieltag = out[j].Spieltag /\ out[j].Spieltag = out[k].Spieltag
            /\ out[i].Rank_At_Spieltag = 1 /\ out[j].Rank_At_Spieltag = 1
            /\ out[k].Rank_At_Spieltag = 3

\* C4: the standings are ordered by Total_Tabellenpunkte descending, ties
\* by Total_Spieltagspunkte_P descending; Rang is the 1-based position, so
\* the ranks of n participants are exactly 1..n, none repeated or skipped
\* even when two participants tie on both sums, and strictly more league
\* points mean a strictly smaller Rang.
C4_StandingsOrder ==
    LET st == view.standings
    IN  /\ \A i, j \in DOMAIN st :
              i < j =>
                /\ st[i].Total_Tabellenpunkte >= st[j].Total_Tabellenpunkte
                /\ st[i].Total_Tabellenpunkte = st[j].Total_Tabellenpunkte
                      => st[i].Total_Spieltagspunkte_P >= st[j].Total_Spieltagspunkte_P
        /\ \A i \in DOMAIN st : st[i].Rang = i
        /\ {st[i].Rang : i \in DOMAIN st} = 1..Cardinality(all_players(df_results))
        /\ \A i, j \in DOMAIN st :
              st[i].Total_Tabellenpunkte > st[j].Total_Tabellenpunkte
              => st[i].Rang < st[j].Rang

\* Three participants: two tie on both sums, and a tie on the league points
\* is broken by the external points against the order of the names.
C4_Witness ==
    /\ Len(view.standings) = 3
    /\ \E i, j \in DOMAIN view.standings :
          /\ i # j
          /\ view.standings[i].Total_Tabellenpunkte = view.standings[j].Total_Tabellenpunkte
          /\ view.standings[i].Total_Spieltagspunkte_P
                 = view.standings[j].Total_Spieltagspunkte_P
    /\ \E i, j \in DOMAIN view.standings :
          /\ i < j
          /\ view.standings[i].Total_Tabellenpunkte = view.standings[j].Total_Tabellenpunkte
          /\ view.standings[i].Total_Spieltagspunkte_P
                 > view.standings[j].Total_Spieltagspunkte_P
          /\ NameIndex(view.standings[i].Name) > NameIndex(view.standings[j].Name)

\* The cells of a raw row that load_data requires are present and valid: a
\* number in the five numeric columns, a name in the Name column.
RawValid(row) ==
    /\ \A c \in {"Spieltag", "Tabellenpunkte", "TV", "NULL", "STS"} :
          row[c].k \in {"int", "frac"}
    /\ row["Name"] # ""

MissingRequired == {c \in Range(REQUIRED_COLUMNS) : c \notin Range(csv.header)}

AbsentOptional == {c \in Range(OPTIONAL_COLUMNS) : c \notin Range(csv.header)}

\* C5 as stated: load_data keeps a raw row if and only if each of the six
\* required columns holds a present and valid value, whatever happens to the
\* other rows: the returned rows are the valid rows of the file, in order.
C5_KeptIffValid ==
    (Loaded /\ csv.exists /\ csv.rows # <<>> /\ MissingRequired = {}) =>
        LET valid == SelectSeq(csv.rows, RawValid)
        IN  /\ Len(df_results.rows) = Len(valid)
            /\ \A i \in DOMAIN df_results.rows :
                  df_results.rows[i]["Name"] = valid[i]["Name"]

\* C6: a file with at least one row whose header lacks required columns
\* loads as the empty frame with all eight expected columns, the one error
\* shown names exactly the missing required columns, and no table is
\* rendered from the file.
C6_MissingColumns ==
    (Loaded /\ csv.exists /\ csv.rows # <<>> /\ MissingRequired # {}) =>
        /\ df_results.rows = <<>>
        /\ df_results.columns = ALL_EXPECTED_COLUMNS
        /\ \E i \in DOMAIN view.msgs :
              /\ view.msgs[i].what = "missing_columns"
              /\ view.msgs[i].level = "error"
              /\ Range(view.msgs[i].cols) = MissingRequired
              /\ Len(view.msgs[i].cols) = Cardinality(MissingRequired)
              /\ \A j \in DOMAIN view.msgs : view.msgs[j].level = "error" => j = i
        /\ view.standings = <<>>
        /\ view.rank_all = no_df
        /\ view.chart = <<>>
        /\ ~view.detail.shown

\* Two required columns and one optional column are missing from the header
\* of a file with a row, and the script has run.
C6_Witness ==
    /\ Loaded
    /\ csv.exists /\ csv.rows # <<>>
    /\ Cardinality(MissingRequired) = 2
    /\ Cardinality(AbsentOptional) = 1
    /\ \E i \in DOMAIN view.msgs : view.msgs[i].what = "missing_columns"

\* C7 as stated: an optional column that is absent from the header is
\* backfilled with 0 in every row, and the frame has the eight expected
\* columns in the fixed order.
C7_BackfillZero ==
    (Loaded /\ csv.exists) =>
        /\ df_results.columns = ALL_EXPECTED_COLUMNS
        /\ \A c \in AbsentOptional : \A i \in DOMAIN df_results.rows :
              df_results.rows[i][c] = IntCell(0)

\* C7 amended: an optional column that is absent from the header is
\* backfilled with the missing-value marker in every row, and the frame has
\* the eight expected columns in the fixed order.
C7_BackfillNull ==
    Loaded =>
        /\ df_results.columns = ALL_EXPECTED_COLUMNS
        /\ \A i \in DOMAIN df_results.rows :
              DOMAIN df_results.rows[i] = Range(ALL_EXPECTED_COLUMNS)
        /\ csv.exists =>
              \A c \in AbsentOptional : \A i \in DOMAIN df_results.rows :
                  isnull(df_results.rows[i][c])

\* A file whose columns come in another order and lack an optional column
\* has been loaded, and a row survived.
C7_Witness ==
    /\ Loaded
    /\ csv.exists
    /\ AbsentOptional # {}
    /\ csv.header # <<>>
    /\ csv.header[1] = "STS"
    /\ df_results.rows # <<>>

\* C8: prepare_rank_chart_data returns the empty frame exactly for a row
\* set with fewer than two distinct rounds; with rows of exactly one round
\* the script renders no rank time series, yet a standings entry for every
\* participant.
C8_TwoRoundsNeeded ==
    /\ df_empty(prepare_rank_chart_data(df_results))
           <=> nunique(df_results.rows, "Spieltag") < 2
    /\ (Loaded /\ nunique(df_results.rows, "Spieltag") = 1) =>
          /\ view.rank_all = no_df
          /\ view.chart = <<>>
          /\ {view.standings[i].Name : i \in DOMAIN view.standings}
                 = all_players(df_results)

\* The script has run on rows of one round and of two participants.
C8_Witness ==
    /\ Loaded
    /\ nunique(df_results.rows, "Spieltag") = 1
    /\ Cardinality(all_players(df_results)) >= 2
    /\ Len(view.standings) >= 2
    /\ view.rank_all = no_df

\* The rows of the round s, as the detail table of the round would show them.
Projected(row, cols) == [c \in Range(cols) |-> row[c]]

\* The detail table shows exactly the rows of round s in the stated order,
\* with the column Rank_Pos if and only if one of them has a Rank_Pos.
DetailShows(s) ==
    LET d == view.detail
        of_round == {j \in DOMAIN df_results.rows : df_results.rows[j]["Spieltag"] = s}
        rank == \E j \in of_round : ~isnull(df_results.rows[j]["Rank_Pos"])
    IN  /\ d.shown /\ d.spieltag = s
        /\ Len(d.rows) = Cardinality(of_round)
        /\ \A i \in DOMAIN d.rows :
              Cardinality({k \in DOMAIN d.rows : d.rows[k] = d.rows[i]})
              = Cardinality({j \in of_round :
                    Projected(df_results.rows[j], d.columns) = d.rows[i]})
        /\ Contains(d.columns, "Rank_Pos") <=> rank
        /\ \A i, j \in DOMAIN d.rows :
              i < j =>
                /\ d.rows[i]["Tabellenpunkte"] >= d.rows[j]["Tabellenpunkte"]
                /\ ( /\ d.rows[i]["Tabellenpunkte"] = d.rows[j]["Tabellenpunkte"]
                     /\ ~isnull(d.rows[i]["Spieltagspunkte_P"])
                     /\ ~isnull(d.rows[j]["Spieltagspunkte_P"]) )
                   => /\ d.rows[i]["Spieltagspunkte_P"].v >= d.rows[j]["Spieltagspunkte_P"].v
                      /\ ( /\ rank
                           /\ d.rows[i]["Spieltagspunkte_P"].v = d.rows[j]["Spieltagspunkte_P"].v
                           /\ ~isnull(d.rows[i]["Rank_Pos"])
                           /\ ~isnull(d.rows[j]["Rank_Pos"]) )
                         => d.rows[i]["Rank_Pos"].v <= d.rows[j]["Rank_Pos"].v

\* C10 as stated: for every round of the validated row set, when it is the
\* selected round, the detail table shows exactly its rows, ordered by
\* Tabellenpunkte descending, Spieltagspunkte_P descending and Rank_Pos
\* ascending, with Rank_Pos present if and only if a row of the round has one.
C10_DetailOfSelectedRound ==
    (Loaded /\ ~df_empty(df_results)) =>
        /\ session.spieltag_selector.val \in unique(df_results.rows, "Spieltag")
        /\ DetailShows(session.spieltag_selector.val)

\* The same for the rounds whose number is not 0.
DetailOfNonzeroRound ==
    (Loaded /\ ~df_empty(df_results) /\ session.spieltag_selector.val # 0) =>
        /\ session.spieltag_selector.val \in unique(df_results.rows, "Spieltag")
        /\ DetailShows(session.spieltag_selector.val)

====
